---- MODULE Spec2Model ----
(***************************************************************************)
(* intrusive_ptr<T> and weak_intrusive_ptr<T>: strong and weak handles     *)
(* over an object that stores its own strong and weak reference counts.    *)
(* The handle operations are translated from src/intrusive_ptr.hpp and     *)
(* src/weak_intrusive_ptr.hpp.  The five counting primitives they call     *)
(* (ref_counted.hpp) are not among the sources; they are modelled from     *)
(* section 4.3 of the specification.                                       *)
(*                                                                         *)
(* Threads run handle operations concurrently.  One step of the model is   *)
(* at most one access to shared memory (one atomic operation on a count,   *)
(* the finalizer, the reclamation) together with the thread-local code     *)
(* around it.  A handle object is used by one thread at a time, except     *)
(* that several threads may call the const members of the same handle.     *)
(***************************************************************************)
EXTENDS Integers, FiniteSets, Sequences, TLC

NThreads == 2
NObjs == 1
NStrong == 3
NWeak == 2
MaxRaw == 1

Threads == 1..NThreads
Objs == 1..NObjs
SH == 1..NStrong
WH == 1..NWeak
\* nullptr
Null == 0
\* value of a handle slot outside the handle's lifetime
NoHandle == -1

VARIABLES
    made,          \* made[o]: the factory has created object o
    strong_count,  \* strong_count[o]
    weak_count,    \* weak_count[o]
    finalized,     \* finalized[o]: how many times the finalizer of o has run
    reclaimed,     \* reclaimed[o]: how many times the storage of o was freed
    raw,           \* raw[o]: strong references owned through a raw pointer
    wraw,          \* wraw[o]: weak references owned through a raw pointer
    iptr,          \* iptr[h]: ptr_ of intrusive_ptr h, or NoHandle
    wptr,          \* wptr[w]: ptr_ of weak_intrusive_ptr w, or NoHandle
    pc,            \* pc[t]: where thread t is inside its current operation
    loc,           \* loc[t]: the locals of that operation
    scn            \* observer of the scenario of section 8 of the specification

vars == <<made, strong_count, weak_count, finalized, reclaimed, raw, wraw, iptr,
          wptr, pc, loc, scn>>

\* locals of a thread that is between operations
IdleLoc == [h |-> 0, w |-> 0, o |-> 0, c |-> 0, ok |-> FALSE, k |-> "-"]

Goto(t, p, l) ==
    /\ pc' = [pc EXCEPT ![t] = p]
    /\ loc' = [loc EXCEPT ![t] = l]

Done(t) == Goto(t, "idle", IdleLoc)

\* a member function of strong handle h is running on some thread
SBusy(h) == \E t \in Threads : pc[t] # "idle" /\ loc[t].h = h
\* a non-const member of weak handle w is running
WExcl(w) == \E t \in Threads : pc[t] \in {"wrelease", "wassign_dtor"} /\ loc[t].w = w
\* a const member (lock, get_locked) of weak handle w is running
WShared(w) == \E t \in Threads : pc[t] \in {"upg_cas", "lock_ret"} /\ loc[t].w = w

SFree(h) == iptr[h] = NoHandle /\ ~SBusy(h)
SUsable(h) == iptr[h] # NoHandle /\ ~SBusy(h)
WFree(w) == wptr[w] = NoHandle /\ ~WExcl(w) /\ ~WShared(w)
WReadable(w) == wptr[w] # NoHandle /\ ~WExcl(w)
WUsable(w) == wptr[w] # NoHandle /\ ~WExcl(w) /\ ~WShared(w)

(***************************************************************************)
(* Observer of the scenarios of section 8 of the specification.  It only   *)
(* records which of the scripted operations have happened; any operation   *)
(* outside the script switches it off for good.                            *)
(*                                                                         *)
(* Main script: object 1 is created and adopted by handle 1 (A); handle 2  *)
(* (B) is a copy of A; weak handle 1 (W) is made from A; A is destroyed;   *)
(* then B is destroyed and W.lock() into handle 3 (N) runs, in sequence or *)
(* concurrently; N, if non-null, is destroyed after B; W is destroyed      *)
(* last.                                                                   *)
(*   setup  steps of the set-up done (5: A is destroyed)                   *)
(*   b      B: held, zero (dropped, finalizer triggered and not yet run),  *)
(*          final (dropped and finalizer run), nofinal (dropped, no        *)
(*          finalizer)                                                     *)
(*   lk     W.lock(): none, run, ok (returned non-null), null              *)
(*   seq    lock() was called after B's destructor had returned            *)
(*   n      N: none (not dropped), zero, final, nofinal                    *)
(*   wd     W is destroyed                                                 *)
(* Side scripts, from the state where A alone owns the object (br):        *)
(*   detached, readopted   p = A.detach(); handle 2 = intrusive_ptr(p,     *)
(*                         false)                                          *)
(*   downcast, upcast      handle 2 = A.down_pointer_cast<Other>(), which  *)
(*                         fails; handle 3 = A.up_pointer_cast<Base>()     *)
(***************************************************************************)
Off == [setup |-> -1, br |-> "-", b |-> "-", lk |-> "-", seq |-> FALSE, n |-> "-",
        wd |-> FALSE]

ScnInit == [setup |-> 0, br |-> "main", b |-> "held", lk |-> "none", seq |-> FALSE,
            n |-> "none", wd |-> FALSE]

Track(op, x, y, z) ==
    IF scn = Off THEN Off
    ELSE IF scn.br # "main" THEN
        CASE scn.br = "detached" /\ op = "adopt" /\ x = 2 /\ y = 1 ->
                [scn EXCEPT !.br = "readopted"]
          [] scn.br = "downcast" /\ op = "upcast" /\ x = 3 /\ y = 1 ->
                [scn EXCEPT !.br = "upcast"]
          [] OTHER -> Off
    ELSE IF scn.setup < 5 THEN
        CASE scn.setup = 0 /\ op = "factory" /\ x = 1 -> [scn EXCEPT !.setup = 1]
          [] scn.setup = 1 /\ op = "adopt" /\ x = 1 /\ y = 1 -> [scn EXCEPT !.setup = 2]
          [] scn.setup = 2 /\ op = "copy" /\ x = 2 /\ y = 1 -> [scn EXCEPT !.setup = 3]
          [] scn.setup = 2 /\ op = "detach" /\ x = 1 -> [scn EXCEPT !.br = "detached"]
          [] scn.setup = 2 /\ op = "downcast" /\ x = 2 /\ y = 1 /\ z ->
                [scn EXCEPT !.br = "downcast"]
          [] scn.setup = 3 /\ op = "weak" /\ x = 1 /\ y = 1 -> [scn EXCEPT !.setup = 4]
          [] scn.setup = 4 /\ op = "destroy" /\ x = 1 -> [scn EXCEPT !.setup = 5]
          [] OTHER -> Off
    ELSE
        CASE op = "destroy" /\ x = 2 /\ scn.b = "held" /\ ~scn.wd ->
                [scn EXCEPT !.b = IF z THEN "zero" ELSE "nofinal"]
          [] op = "finalize" /\ x = 2 /\ scn.b = "zero" -> [scn EXCEPT !.b = "final"]
          [] op = "lock" /\ x = 1 /\ y = 3 /\ scn.lk = "none" /\ ~scn.wd ->
                [scn EXCEPT !.lk = "run", !.seq = (scn.b \in {"final", "nofinal"})]
          [] op = "upg" /\ x = 1 /\ y = 3 /\ scn.lk = "run" -> scn
          [] op = "lock_ret" /\ x = 1 /\ y = 3 /\ scn.lk = "run" ->
                [scn EXCEPT !.lk = IF z THEN "ok" ELSE "null"]
          [] op = "destroy" /\ x = 3 /\ scn.lk = "ok" /\ scn.n = "none"
                /\ scn.b \in {"final", "nofinal"} ->
                [scn EXCEPT !.n = IF z THEN "zero" ELSE "nofinal"]
          [] op = "finalize" /\ x = 3 /\ scn.n = "zero" -> [scn EXCEPT !.n = "final"]
          [] op = "wdestroy" /\ x = 1 /\ ~scn.wd
                /\ \/ scn.lk = "null" /\ scn.b = "final"
                   \/ scn.lk = "ok" /\ scn.n = "final" ->
                [scn EXCEPT !.wd = TRUE]
          [] OTHER -> Off

(***************************************************************************)
(* The counting primitives (section 4.3 of the specification).             *)
(***************************************************************************)
\* add_strong_ref: one atomic increment; the new strong counts
intrusive_ptr_add_ref(o) == [strong_count EXCEPT ![o] = @ + 1]

\* release_strong_ref: atomic decrement-and-test; the thread that brings the
\* count to 0 goes on to run the finalizer (handle h is the one being released)
intrusive_ptr_release(t, o, h) ==
    /\ strong_count' = [strong_count EXCEPT ![o] = @ - 1]
    /\ IF strong_count[o] - 1 = 0
       THEN Goto(t, "finalize", [IdleLoc EXCEPT !.o = o, !.h = h])
       ELSE Done(t)

\* add_weak_ref: one atomic increment; the new weak counts
intrusive_ptr_add_weak_ref(o) == [weak_count EXCEPT ![o] = @ + 1]

\* release_weak_ref: decrements; if the result is 0 and the object has already
\* been finalized, reclaims the storage
intrusive_ptr_release_weak(o) ==
    /\ weak_count' = [weak_count EXCEPT ![o] = @ - 1]
    /\ reclaimed' = IF weak_count[o] - 1 = 0 /\ finalized[o] > 0
                    THEN [reclaimed EXCEPT ![o] = @ + 1]
                    ELSE reclaimed

\* the finalizer of the object whose strong count this thread brought to 0
Finalize(t) ==
    /\ pc[t] = "finalize"
    /\ finalized' = [finalized EXCEPT ![loc[t].o] = @ + 1]
    /\ Done(t)
    /\ scn' = Track("finalize", loc[t].h, 0, FALSE)
    /\ UNCHANGED <<wraw, made, strong_count, weak_count, reclaimed, raw, iptr, wptr>>

\* the external factory: a new object with strong_count = 1, weak_count = 0,
\* returned as a raw pointer that owns the one reference
Factory(t, o) ==
    /\ pc[t] = "idle"
    /\ ~made[o]
    /\ made' = [made EXCEPT ![o] = TRUE]
    /\ strong_count' = [strong_count EXCEPT ![o] = 1]
    /\ weak_count' = [weak_count EXCEPT ![o] = 0]
    /\ raw' = [raw EXCEPT ![o] = 1]
    /\ scn' = Track("factory", o, 0, FALSE)
    /\ UNCHANGED <<wraw, finalized, reclaimed, iptr, wptr, pc, loc>>

\* the dynamic type of an object; every class derives from "Base"
DynType(o) == IF o % 2 = 1 THEN "Derived" ELSE "Other"

Classes == {"Derived", "Other"}

(***************************************************************************)
(* intrusive_ptr<T>                                                        *)
(***************************************************************************)
\* a set_ptr that adds a reference whatever add_ref says
set_ptr_always_adds(h, raw_ptr, add_ref) ==
    /\ iptr' = [iptr EXCEPT ![h] = raw_ptr]
    /\ strong_count' = IF raw_ptr # Null
                       THEN intrusive_ptr_add_ref(raw_ptr)
                       ELSE strong_count

\* set_ptr(raw_ptr, add_ref) on handle h
set_ptr(h, raw_ptr, add_ref) ==
    /\ iptr' = [iptr EXCEPT ![h] = raw_ptr]
    /\ strong_count' = IF raw_ptr # Null /\ add_ref
                       THEN intrusive_ptr_add_ref(raw_ptr)
                       ELSE strong_count

\* intrusive_ptr(raw_ptr, false) over a raw pointer that owns a reference
Adopt(t, h, o) ==
    /\ pc[t] = "idle"
    /\ SFree(h)
    /\ raw[o] > 0
    /\ set_ptr(h, o, FALSE)
    /\ raw' = [raw EXCEPT ![o] = @ - 1]
    /\ scn' = Track("adopt", h, o, FALSE)
    /\ UNCHANGED <<wraw, made, weak_count, finalized, reclaimed, wptr, pc, loc>>

\* the add_ref argument the copy constructor passes to set_ptr
copy_no_add_ref == FALSE

copy_add_ref == TRUE

\* intrusive_ptr(const intrusive_ptr& other), constructing dst from src
CopyCtor(t, dst, src) ==
    /\ pc[t] = "idle"
    /\ SFree(dst)
    /\ SUsable(src)
    /\ set_ptr(dst, iptr[src], copy_add_ref)
    /\ scn' = Track("copy", dst, src, FALSE)
    /\ UNCHANGED <<wraw, made, weak_count, finalized, reclaimed, raw, wptr, pc, loc>>

\* detach(): the handle's ptr_ afterwards (the result is the old ptr_)
detach_keeps_ptr(p) == p

detach(p) == IF p # Null THEN Null ELSE p

\* intrusive_ptr(intrusive_ptr&& other) : ptr_(other.detach())
MoveCtor(t, dst, src) ==
    /\ pc[t] = "idle"
    /\ SFree(dst)
    /\ SUsable(src)
    /\ iptr' = [iptr EXCEPT ![dst] = iptr[src], ![src] = detach(iptr[src])]
    /\ scn' = Track("move", dst, src, FALSE)
    /\ UNCHANGED <<wraw, made, strong_count, weak_count, finalized, reclaimed, raw, wptr,
                   pc, loc>>

\* p = h.detach() (release() is the same): the caller now owns the reference
Detach(t, h) ==
    /\ pc[t] = "idle"
    /\ SUsable(h)
    /\ iptr[h] # Null => raw[iptr[h]] < MaxRaw
    /\ iptr' = [iptr EXCEPT ![h] = detach(iptr[h])]
    /\ raw' = IF iptr[h] # Null THEN [raw EXCEPT ![iptr[h]] = @ + 1] ELSE raw
    /\ scn' = Track("detach", h, 0, FALSE)
    /\ UNCHANGED <<wraw, made, strong_count, weak_count, finalized, reclaimed, wptr, pc, loc>>

\* whether ~intrusive_ptr releases a reference
dtor_never_releases(p) == FALSE

dtor_releases(p) == p # Null

\* ~intrusive_ptr()
Destroy(t, h) ==
    /\ pc[t] = "idle"
    /\ SUsable(h)
    /\ iptr' = [iptr EXCEPT ![h] = NoHandle]
    /\ IF dtor_releases(iptr[h])
       THEN intrusive_ptr_release(t, iptr[h], h)
       ELSE UNCHANGED <<strong_count, pc, loc>>
    /\ scn' = Track("destroy", h, 0, iptr[h] # Null /\ strong_count[iptr[h]] = 1)
    /\ UNCHANGED <<wraw, made, weak_count, finalized, reclaimed, raw, wptr>>

\* reset that never acquires the new target
reset_no_add_ref(t, h, new_value, add_ref) ==
    /\ set_ptr(h, new_value, FALSE)
    /\ IF iptr[h] # Null
       THEN Goto(t, "release", [IdleLoc EXCEPT !.h = h, !.o = iptr[h],
                                               !.k = IF add_ref THEN "add" ELSE "adopt"])
       ELSE UNCHANGED <<pc, loc>>

\* reset(new_value, add_ref) up to the release of the old target:
\* old = ptr_; set_ptr(new_value, add_ref); if (old) ...
reset(t, h, new_value, add_ref) ==
    /\ set_ptr(h, new_value, add_ref)
    /\ IF iptr[h] # Null
       THEN Goto(t, "release", [IdleLoc EXCEPT !.h = h, !.o = iptr[h],
                                               !.k = IF add_ref THEN "add" ELSE "adopt"])
       ELSE UNCHANGED <<pc, loc>>

\* h.reset()
ResetNull(t, h) ==
    /\ pc[t] = "idle"
    /\ SUsable(h)
    /\ reset(t, h, Null, TRUE)
    /\ scn' = Track("reset", h, 0, FALSE)
    /\ UNCHANGED <<wraw, made, weak_count, finalized, reclaimed, raw, wptr>>

\* h.reset(src.get()), also h = src.get(); src may be h itself
ResetTo(t, h, src) ==
    /\ pc[t] = "idle"
    /\ SUsable(h)
    /\ SUsable(src)
    /\ reset(t, h, iptr[src], TRUE)
    /\ scn' = Track("reset", h, src, FALSE)
    /\ UNCHANGED <<wraw, made, weak_count, finalized, reclaimed, raw, wptr>>

\* h.reset(p, false) over a raw pointer that owns a reference
ResetAdopt(t, h, o) ==
    /\ pc[t] = "idle"
    /\ SUsable(h)
    /\ raw[o] > 0
    /\ reset(t, h, o, FALSE)
    /\ raw' = [raw EXCEPT ![o] = @ - 1]
    /\ scn' = Track("reset", h, o, FALSE)
    /\ UNCHANGED <<wraw, made, weak_count, finalized, reclaimed, wptr>>

\* the rest of reset: if (old) intrusive_ptr_release(old)
ResetRelease(t) ==
    /\ pc[t] = "release"
    /\ intrusive_ptr_release(t, loc[t].o, loc[t].h)
    /\ scn' = Track("reset_release", loc[t].h, 0, FALSE)
    /\ UNCHANGED <<wraw, made, weak_count, finalized, reclaimed, raw, iptr, wptr>>

\* a swap that leaves both pointers where they are
swap_nothing(p, q) == <<p, q>>

\* std::swap(ptr_, other.ptr_): the new <<ptr_, other.ptr_>>
std_swap(p, q) == <<q, p>>

\* a.swap(b)
Swap(t, a, b) ==
    /\ pc[t] = "idle"
    /\ a # b
    /\ SUsable(a)
    /\ SUsable(b)
    /\ iptr' = [iptr EXCEPT ![a] = std_swap(iptr[a], iptr[b])[1],
                            ![b] = std_swap(iptr[a], iptr[b])[2]]
    /\ scn' = Track("swap", a, b, FALSE)
    /\ UNCHANGED <<wraw, made, strong_count, weak_count, finalized, reclaimed, raw, wptr,
                   pc, loc>>

\* an assignment whose parameter is destroyed before the swap, while it still
\* holds the new target: the parameter's pointer when its destructor runs
assign_releases_new(p, q) == q

\* operator=(intrusive_ptr other) { swap(other); }: the parameter's pointer when
\* its destructor runs, p being ptr_ and q the parameter's pointer at the call
assign_param_after(p, q) == std_swap(p, q)[2]

\* a = b: the parameter other is copy-constructed from b (b may be a itself),
\* a.swap(other) runs, and other is destroyed when the call returns
CopyAssign(t, a, b) ==
    /\ pc[t] = "idle"
    /\ SUsable(a)
    /\ SUsable(b)
    /\ strong_count' = IF iptr[b] # Null /\ copy_add_ref
                       THEN intrusive_ptr_add_ref(iptr[b])
                       ELSE strong_count
    /\ iptr' = [iptr EXCEPT ![a] = std_swap(iptr[a], iptr[b])[1]]
    /\ IF assign_param_after(iptr[a], iptr[b]) # Null
       THEN Goto(t, "assign_dtor",
                 [IdleLoc EXCEPT !.h = a, !.o = assign_param_after(iptr[a], iptr[b]),
                                 !.k = "copy"])
       ELSE UNCHANGED <<pc, loc>>
    /\ scn' = Track("assign", a, b, FALSE)
    /\ UNCHANGED <<wraw, made, weak_count, finalized, reclaimed, raw, wptr>>

\* a = std::move(b): the parameter other is move-constructed from b, which is
\* left null; a.swap(other) runs, and other is destroyed when the call returns
MoveAssign(t, a, b) ==
    /\ pc[t] = "idle"
    /\ a # b
    /\ SUsable(a)
    /\ SUsable(b)
    /\ iptr' = [iptr EXCEPT ![a] = std_swap(iptr[a], iptr[b])[1],
                            ![b] = detach(iptr[b])]
    /\ IF assign_param_after(iptr[a], iptr[b]) # Null
       THEN Goto(t, "assign_dtor",
                 [IdleLoc EXCEPT !.h = a, !.o = assign_param_after(iptr[a], iptr[b]),
                                 !.k = "move"])
       ELSE UNCHANGED <<pc, loc>>
    /\ scn' = Track("assign", a, b, FALSE)
    /\ UNCHANGED <<wraw, made, strong_count, weak_count, finalized, reclaimed, raw,
                   wptr>>

\* the end of operator=: the destructor of the parameter, which holds what was
\* a's target
AssignDtor(t) ==
    /\ pc[t] = "assign_dtor"
    /\ IF dtor_releases(loc[t].o)
       THEN intrusive_ptr_release(t, loc[t].o, loc[t].h)
       ELSE Done(t) /\ UNCHANGED strong_count
    /\ scn' = Track("assign_dtor", loc[t].h, 0, FALSE)
    /\ UNCHANGED <<wraw, made, weak_count, finalized, reclaimed, raw, iptr, wptr>>

\* a dynamic_cast that always succeeds
dynamic_cast_unchecked(C, p) == p

\* dynamic_cast<C*>(p): p if the object is a C, else nullptr
dynamic_cast(C, p) == IF p # Null /\ DynType(p) = C THEN p ELSE Null

\* static_cast<C*>(p) to a base class C
static_cast(C, p) == p

\* dst = src.down_pointer_cast<C>(): the result is built by
\* intrusive_ptr<C>(pointer, add_ref = true)
DownCast(t, dst, src, C) ==
    /\ pc[t] = "idle"
    /\ SFree(dst)
    /\ SUsable(src)
    /\ set_ptr(dst, IF iptr[src] # Null THEN dynamic_cast(C, iptr[src]) ELSE Null, TRUE)
    /\ scn' = Track("downcast", dst, src, iptr[src] # Null /\ DynType(iptr[src]) # C)
    /\ UNCHANGED <<wraw, made, weak_count, finalized, reclaimed, raw, wptr, pc, loc>>

\* dst = src.up_pointer_cast<Base>()
UpCast(t, dst, src) ==
    /\ pc[t] = "idle"
    /\ SFree(dst)
    /\ SUsable(src)
    /\ set_ptr(dst, IF iptr[src] # Null THEN static_cast("Base", iptr[src]) ELSE Null, TRUE)
    /\ scn' = Track("upcast", dst, src, FALSE)
    /\ UNCHANGED <<wraw, made, weak_count, finalized, reclaimed, raw, wptr, pc, loc>>

(***************************************************************************)
(* weak_intrusive_ptr<T>                                                   *)
(***************************************************************************)
\* a weak set_ptr that never adds a weak reference
wset_ptr_never_adds(w, raw_ptr, add_ref) ==
    /\ wptr' = [wptr EXCEPT ![w] = raw_ptr]
    /\ weak_count' = weak_count

\* weak_intrusive_ptr::set_ptr(raw_ptr, add_ref) on weak handle w
wset_ptr(w, raw_ptr, add_ref) ==
    /\ wptr' = [wptr EXCEPT ![w] = raw_ptr]
    /\ weak_count' = IF raw_ptr # Null /\ add_ref
                     THEN intrusive_ptr_add_weak_ref(raw_ptr)
                     ELSE weak_count

\* weak_intrusive_ptr(src.get()) over the target of strong handle src
WeakCtor(t, w, src) ==
    /\ pc[t] = "idle"
    /\ WFree(w)
    /\ SUsable(src)
    /\ wset_ptr(w, iptr[src], TRUE)
    /\ scn' = Track("weak", w, src, FALSE)
    /\ UNCHANGED <<wraw, made, strong_count, finalized, reclaimed, raw, iptr, pc, loc>>

\* the add_ref argument the weak copy constructor passes to set_ptr
weak_copy_no_add_ref == FALSE

weak_copy_add_ref == TRUE

\* weak_intrusive_ptr(const weak_intrusive_ptr& other)
WeakCopy(t, w, src) ==
    /\ pc[t] = "idle"
    /\ WFree(w)
    /\ WReadable(src)
    /\ wset_ptr(w, wptr[src], weak_copy_add_ref)
    /\ scn' = Track("weak_copy", w, src, FALSE)
    /\ UNCHANGED <<wraw, made, strong_count, finalized, reclaimed, raw, iptr, pc, loc>>

\* ~weak_intrusive_ptr()
WeakDestroy(t, w) ==
    /\ pc[t] = "idle"
    /\ WUsable(w)
    /\ wptr' = [wptr EXCEPT ![w] = NoHandle]
    /\ IF wptr[w] # Null
       THEN intrusive_ptr_release_weak(wptr[w])
       ELSE UNCHANGED <<weak_count, reclaimed>>
    /\ scn' = Track("wdestroy", w, 0, FALSE)
    /\ UNCHANGED <<wraw, made, strong_count, finalized, raw, iptr, pc, loc>>

\* weak reset that never acquires the new target
wreset_no_add_ref(t, w, new_value, add_ref) ==
    /\ wset_ptr(w, new_value, FALSE)
    /\ IF wptr[w] # Null
       THEN Goto(t, "wrelease", [IdleLoc EXCEPT !.w = w, !.o = wptr[w]])
       ELSE UNCHANGED <<pc, loc>>

\* weak reset(new_value, add_ref) up to the release of the old target
wreset(t, w, new_value, add_ref) ==
    /\ wset_ptr(w, new_value, add_ref)
    /\ IF wptr[w] # Null
       THEN Goto(t, "wrelease", [IdleLoc EXCEPT !.w = w, !.o = wptr[w]])
       ELSE UNCHANGED <<pc, loc>>

\* w.reset()
WeakResetNull(t, w) ==
    /\ pc[t] = "idle"
    /\ WUsable(w)
    /\ wreset(t, w, Null, TRUE)
    /\ scn' = Track("wreset", w, 0, FALSE)
    /\ UNCHANGED <<wraw, made, strong_count, finalized, reclaimed, raw, iptr>>

\* w.reset(src.get()) over the target of strong handle src
WeakResetTo(t, w, src) ==
    /\ pc[t] = "idle"
    /\ WUsable(w)
    /\ SUsable(src)
    /\ wreset(t, w, iptr[src], TRUE)
    /\ scn' = Track("wreset", w, src, FALSE)
    /\ UNCHANGED <<wraw, made, strong_count, finalized, reclaimed, raw, iptr>>

\* w.reset(src.get()) over the target of weak handle src; src may be w itself
WeakResetFrom(t, w, src) ==
    /\ pc[t] = "idle"
    /\ WUsable(w)
    /\ WReadable(src)
    /\ wreset(t, w, wptr[src], TRUE)
    /\ scn' = Track("wreset", w, src, FALSE)
    /\ UNCHANGED <<wraw, made, strong_count, finalized, reclaimed, raw, iptr>>

\* the rest of weak reset: if (old) intrusive_ptr_release_weak(old)
WeakResetRelease(t) ==
    /\ pc[t] = "wrelease"
    /\ intrusive_ptr_release_weak(loc[t].o)
    /\ Done(t)
    /\ scn' = Track("wreset_release", loc[t].w, 0, FALSE)
    /\ UNCHANGED <<wraw, made, strong_count, finalized, raw, iptr, wptr>>

\* weak_intrusive_ptr(raw_ptr, false) over a raw pointer that owns a weak
\* reference
WeakAdopt(t, w, o) ==
    /\ pc[t] = "idle"
    /\ WFree(w)
    /\ wraw[o] > 0
    /\ wset_ptr(w, o, FALSE)
    /\ wraw' = [wraw EXCEPT ![o] = @ - 1]
    /\ scn' = Track("weak_adopt", w, o, FALSE)
    /\ UNCHANGED <<made, strong_count, finalized, reclaimed, raw, iptr, pc, loc>>

\* a weak detach that leaves the pointer in the handle
wdetach_keeps_ptr(p) == p

\* weak_intrusive_ptr::detach(): the handle's ptr_ afterwards
wdetach(p) == IF p # Null THEN Null ELSE p

\* weak_intrusive_ptr(weak_intrusive_ptr&& other) : ptr_(other.detach())
WeakMoveCtor(t, dst, src) ==
    /\ pc[t] = "idle"
    /\ WFree(dst)
    /\ WUsable(src)
    /\ wptr' = [wptr EXCEPT ![dst] = wptr[src], ![src] = wdetach(wptr[src])]
    /\ scn' = Track("weak_move", dst, src, FALSE)
    /\ UNCHANGED <<wraw, made, strong_count, weak_count, finalized, reclaimed, raw,
                   iptr, pc, loc>>

\* p = w.detach() (release() is the same): the caller now owns the weak reference
WeakDetach(t, w) ==
    /\ pc[t] = "idle"
    /\ WUsable(w)
    /\ wptr[w] # Null => wraw[wptr[w]] < MaxRaw
    /\ wptr' = [wptr EXCEPT ![w] = wdetach(wptr[w])]
    /\ wraw' = IF wptr[w] # Null THEN [wraw EXCEPT ![wptr[w]] = @ + 1] ELSE wraw
    /\ scn' = Track("weak_detach", w, 0, FALSE)
    /\ UNCHANGED <<made, strong_count, weak_count, finalized, reclaimed, raw, iptr,
                   pc, loc>>

\* a.swap(b) on weak handles
WeakSwap(t, a, b) ==
    /\ pc[t] = "idle"
    /\ a # b
    /\ WUsable(a)
    /\ WUsable(b)
    /\ wptr' = [wptr EXCEPT ![a] = std_swap(wptr[a], wptr[b])[1],
                            ![b] = std_swap(wptr[a], wptr[b])[2]]
    /\ scn' = Track("weak_swap", a, b, FALSE)
    /\ UNCHANGED <<wraw, made, strong_count, weak_count, finalized, reclaimed, raw,
                   iptr, pc, loc>>

\* a = b on weak handles: the parameter other is copy-constructed from b (b may
\* be a itself), a.swap(other) runs, and other is destroyed when the call returns
WeakAssign(t, a, b) ==
    /\ pc[t] = "idle"
    /\ WUsable(a)
    /\ WReadable(b)
    /\ weak_count' = IF wptr[b] # Null /\ weak_copy_add_ref
                     THEN intrusive_ptr_add_weak_ref(wptr[b])
                     ELSE weak_count
    /\ wptr' = [wptr EXCEPT ![a] = std_swap(wptr[a], wptr[b])[1]]
    /\ IF std_swap(wptr[a], wptr[b])[2] # Null
       THEN Goto(t, "wassign_dtor",
                 [IdleLoc EXCEPT !.w = a, !.o = std_swap(wptr[a], wptr[b])[2]])
       ELSE UNCHANGED <<pc, loc>>
    /\ scn' = Track("weak_assign", a, b, FALSE)
    /\ UNCHANGED <<wraw, made, strong_count, finalized, reclaimed, raw, iptr>>

\* the end of the weak operator=: the destructor of the parameter, which holds
\* what was a's target
WeakAssignDtor(t) ==
    /\ pc[t] = "wassign_dtor"
    /\ IF loc[t].o # Null
       THEN intrusive_ptr_release_weak(loc[t].o)
       ELSE UNCHANGED <<weak_count, reclaimed>>
    /\ Done(t)
    /\ scn' = Track("weak_assign_dtor", loc[t].w, 0, FALSE)
    /\ UNCHANGED <<wraw, made, strong_count, finalized, raw, iptr, wptr>>

\* try_upgrade_weak, first read of the count: fail if it is 0, else go on to the
\* compare-and-increment with the value read
upgrade_load(t, l) ==
    IF strong_count[l.o] = 0
    THEN Goto(t, "lock_ret", [l EXCEPT !.ok = FALSE])
    ELSE Goto(t, "upg_cas", [l EXCEPT !.c = strong_count[l.o]])

\* try_upgrade_weak, compare-and-increment: succeeds if the count is still the
\* value read; otherwise takes the current value and fails if it is 0, else retries
intrusive_ptr_upgrade_weak(t) ==
    IF strong_count[loc[t].o] = loc[t].c
    THEN /\ strong_count' = intrusive_ptr_add_ref(loc[t].o)
         /\ Goto(t, "lock_ret", [loc[t] EXCEPT !.c = 0, !.ok = TRUE])
    ELSE /\ upgrade_load(t, loc[t])
         /\ UNCHANGED strong_count

\* lock() and get_locked(), from the call to the first read of the count:
\* if (!ptr_ || !intrusive_ptr_upgrade_weak(ptr_)) return nullptr
LockStart(t, w, dst, k) ==
    /\ pc[t] = "idle"
    /\ WReadable(w)
    /\ IF k = "lock" THEN dst \in SH /\ SFree(dst) ELSE dst = 0
    /\ IF wptr[w] = Null
       THEN /\ iptr' = IF k = "lock" THEN [iptr EXCEPT ![dst] = Null] ELSE iptr
            /\ UNCHANGED <<pc, loc>>
       ELSE /\ k = "get_locked" => raw[wptr[w]] < MaxRaw
            /\ upgrade_load(t, [IdleLoc EXCEPT !.h = dst, !.w = w, !.o = wptr[w], !.k = k])
            /\ UNCHANGED iptr
    /\ scn' = Track(IF wptr[w] = Null THEN "lock_null" ELSE "lock", w, dst, FALSE)
    /\ UNCHANGED <<wraw, made, strong_count, weak_count, finalized, reclaimed, raw, wptr>>

\* the retry loop of try_upgrade_weak
UpgCas(t) ==
    /\ pc[t] = "upg_cas"
    /\ intrusive_ptr_upgrade_weak(t)
    /\ scn' = Track("upg", loc[t].w, loc[t].h, FALSE)
    /\ UNCHANGED <<wraw, made, weak_count, finalized, reclaimed, raw, iptr, wptr>>

\* a lock() that returns its pointer whatever the upgrade said
lock_ignores_upgrade(ok, p) == p

\* the pointer lock() wraps: nullptr if the upgrade failed, else ptr_
lock_returns(ok, p) == IF ok THEN p ELSE Null

\* a get_locked() that returns its pointer whatever the upgrade said
get_locked_ignores_upgrade(ok, p) == p

\* the pointer get_locked() returns: nullptr if the upgrade failed, else ptr_
get_locked_returns(ok, p) == IF ok THEN p ELSE Null

\* a lock() that lets the handle it returns add a reference of its own
lock_adds_ref == TRUE

\* the add_ref argument of the handle lock() returns: return {ptr_, false}
lock_add_ref == FALSE

\* a lock() that, instead of returning, goes back to the upgrade
lock_tries_again(t) ==
    /\ pc[t] = "lock_ret"
    /\ Goto(t, "upg_cas", [loc[t] EXCEPT !.c = strong_count[loc[t].o], !.ok = FALSE])
    /\ scn' = Track("upg", loc[t].w, loc[t].h, FALSE)
    /\ UNCHANGED <<wraw, made, strong_count, weak_count, finalized, reclaimed, raw,
                   iptr, wptr>>

\* the return of lock(): a handle over the pointer; of get_locked(): the pointer
LockRet(t) ==
    /\ pc[t] = "lock_ret"
    /\ IF loc[t].k = "lock"
       THEN /\ set_ptr(loc[t].h, lock_returns(loc[t].ok, wptr[loc[t].w]), lock_add_ref)
            /\ UNCHANGED raw
       ELSE /\ LET p == get_locked_returns(loc[t].ok, wptr[loc[t].w]) IN
                raw' = IF p # Null THEN [raw EXCEPT ![p] = @ + 1] ELSE raw
            /\ UNCHANGED <<iptr, strong_count>>
    /\ Done(t)
    /\ scn' = Track("lock_ret", loc[t].w, loc[t].h, loc[t].ok)
    /\ UNCHANGED <<wraw, made, weak_count, finalized, reclaimed, wptr>>

(***************************************************************************)
(* The system                                                              *)
(***************************************************************************)
Init ==
    /\ made = [o \in Objs |-> FALSE]
    /\ strong_count = [o \in Objs |-> 0]
    /\ weak_count = [o \in Objs |-> 0]
    /\ finalized = [o \in Objs |-> 0]
    /\ reclaimed = [o \in Objs |-> 0]
    /\ raw = [o \in Objs |-> 0]
    /\ wraw = [o \in Objs |-> 0]
    /\ iptr = [h \in SH |-> NoHandle]
    /\ wptr = [w \in WH |-> NoHandle]
    /\ pc = [t \in Threads |-> "idle"]
    /\ loc = [t \in Threads |-> IdleLoc]
    /\ scn = ScnInit

Next ==
    \E t \in Threads :
        \/ \E o \in Objs : Factory(t, o)
        \/ \E h \in SH, o \in Objs : Adopt(t, h, o)
        \/ \E dst \in SH, src \in SH : CopyCtor(t, dst, src)
        \/ \E dst \in SH, src \in SH : MoveCtor(t, dst, src)
        \/ \E h \in SH : Detach(t, h)
        \/ \E h \in SH : Destroy(t, h)
        \/ \E h \in SH : ResetNull(t, h)
        \/ \E h \in SH, src \in SH : ResetTo(t, h, src)
        \/ \E h \in SH, o \in Objs : ResetAdopt(t, h, o)
        \/ ResetRelease(t)
        \/ Finalize(t)
        \/ \E a \in SH, b \in SH : Swap(t, a, b)
        \/ \E dst \in SH, src \in SH, C \in Classes : DownCast(t, dst, src, C)
        \/ \E dst \in SH, src \in SH : UpCast(t, dst, src)
        \/ \E w \in WH, src \in SH : WeakCtor(t, w, src)
        \/ \E w \in WH, src \in WH : WeakCopy(t, w, src)
        \/ \E w \in WH : WeakDestroy(t, w)
        \/ \E w \in WH : WeakResetNull(t, w)
        \/ \E w \in WH, src \in SH : WeakResetTo(t, w, src)
        \/ \E w \in WH, src \in WH : WeakResetFrom(t, w, src)
        \/ WeakResetRelease(t)
        \/ \E w \in WH, dst \in SH : LockStart(t, w, dst, "lock")
        \/ \E w \in WH : LockStart(t, w, 0, "get_locked")
        \/ UpgCas(t)
        \/ LockRet(t)
        \/ \E a \in SH, b \in SH : CopyAssign(t, a, b)
        \/ \E a \in SH, b \in SH : MoveAssign(t, a, b)
        \/ AssignDtor(t)
        \/ \E w \in WH, o \in Objs : WeakAdopt(t, w, o)
        \/ \E dst \in WH, src \in WH : WeakMoveCtor(t, dst, src)
        \/ \E w \in WH : WeakDetach(t, w)
        \/ \E a \in WH, b \in WH : WeakSwap(t, a, b)
        \/ \E a \in WH, b \in WH : WeakAssign(t, a, b)
        \/ WeakAssignDtor(t)

Spec == Init /\ [][Next]_vars

\* the next step of a thread that is inside an operation
Continue(t) ==
    \/ ResetRelease(t)
    \/ AssignDtor(t)
    \/ Finalize(t)
    \/ WeakResetRelease(t)
    \/ WeakAssignDtor(t)
    \/ UpgCas(t)
    \/ LockRet(t)

\* every thread that is inside an operation keeps running
FairSpec == Spec /\ \A t \in Threads : WF_vars(Continue(t))

(***************************************************************************)
(* Properties                                                              *)
(***************************************************************************)
\* the threads that brought the strong count of o to 0 and have yet to run its
\* finalizer
Finalizing(o) == {t \in Threads : pc[t] = "finalize" /\ loc[t].o = o}

\* how many releases have observed the strong count of o reaching 0
ZeroSeen(o) == finalized[o] + Cardinality(Finalizing(o))

\* the strong handles that point to o
StrongOn(o) == {h \in SH : iptr[h] = o}

\* the weak handles that point to o
WeakOn(o) == {w \in WH : wptr[w] = o}

\* C1: every non-null strong handle, for as long as it exists, points to an
\* object that holds at least one strong reference, whose finalizer has neither
\* run nor been triggered, and whose storage has not been reclaimed.
C1_StrongHandleLive ==
    \A h \in SH :
        iptr[h] \in Objs =>
            /\ strong_count[iptr[h]] >= 1
            /\ finalized[iptr[h]] = 0
            /\ Finalizing(iptr[h]) = {}
            /\ reclaimed[iptr[h]] = 0

\* C1 witness: W.lock() was called before B's destructor had returned, it
\* returned the non-null handle N, B is dropped since, and N is the only owner.
C1_Witness ==
    /\ scn.lk = "ok" /\ ~scn.seq /\ scn.b = "nofinal"
    /\ iptr[3] = 1 /\ strong_count[1] = 1

\* C2: in the scenario (B holds the only strong reference, W is a weak handle,
\* W.lock() runs concurrently with B's destruction, the handle lock() returns is
\* dropped after B): a lock() that returned null means B's drop triggered the
\* finalizer; a lock() that returned a handle means that B's drop did not, that the
\* object stays unfinalized while that handle is held and that the drop of that
\* handle triggers the finalizer.
C2_LockRace ==
    (scn # Off /\ scn.setup = 5) =>
        /\ scn.lk = "null" => scn.b \in {"zero", "final"}
        /\ scn.lk = "null" => iptr[3] = Null
        /\ (scn.lk = "ok" /\ scn.b # "held") => scn.b = "nofinal"
        /\ (scn.lk = "ok" /\ scn.n = "none") =>
               iptr[3] = 1 /\ finalized[1] = 0 /\ Finalizing(1) = {}
        /\ scn.n # "nofinal"
        /\ scn.n = "final" => finalized[1] = 1
        /\ scn.b = "final" => finalized[1] = 1

\* C2 witness: lock() was called before B's destructor had returned and has
\* returned null; B's drop has brought the count to 0 and its finalizer is about
\* to run.
C2_Witness == scn.lk = "null" /\ ~scn.seq /\ scn.b = "zero"

\* C3: the finalizer of an object is triggered at most once, never while a
\* strong handle points to the object, and it has run exactly once when every
\* strong handle is destroyed and no operation is in progress.
C3_FinalizedOnce ==
    \A o \in Objs :
        /\ ZeroSeen(o) <= 1
        /\ ZeroSeen(o) >= 1 => StrongOn(o) = {}
        /\ ( /\ made[o] /\ StrongOn(o) = {} /\ raw[o] = 0
             /\ \A t \in Threads : pc[t] = "idle" )
           => finalized[o] = 1

\* C3 witness: no weak handle exists, every strong handle slot is destroyed and
\* the finalizer has run.
C3_Witness ==
    /\ finalized[1] = 1
    /\ weak_count[1] = 0
    /\ \A h \in SH : iptr[h] = NoHandle
    /\ \A w \in WH : wptr[w] = NoHandle
    /\ \A t \in Threads : pc[t] = "idle"

\* C4: once a release has observed the strong count reaching 0, the count stays
\* 0: no upgrade holds or hands out a reference, no raw pointer or handle owns
\* one, and no second release observes 0.
C4_ZeroAbsorbing ==
    \A o \in Objs :
        ZeroSeen(o) >= 1 =>
            /\ strong_count[o] = 0
            /\ ZeroSeen(o) = 1
            /\ raw[o] = 0
            /\ \A t \in Threads :
                   (pc[t] = "lock_ret" /\ loc[t].o = o) => ~loc[t].ok

\* C4 witness: two upgrades of the dead object have run concurrently and both
\* have failed.
C4_Witness ==
    /\ finalized[1] = 1
    /\ \A t \in Threads : pc[t] = "lock_ret" /\ loc[t].o = 1 /\ ~loc[t].ok

\* C5: storage is reclaimed at most once, and only of an object that is
\* finalized, whose counts are both 0 and to which no strong or weak handle
\* points.
C5_ReclaimedOnce ==
    \A o \in Objs :
        /\ reclaimed[o] <= 1
        /\ reclaimed[o] >= 1 =>
               /\ finalized[o] >= 1
               /\ strong_count[o] = 0
               /\ weak_count[o] = 0
               /\ StrongOn(o) = {}
               /\ WeakOn(o) = {}
               /\ \A t \in Threads : pc[t] # "idle" => loc[t].o # o

\* C5 witness: the storage of the object has been reclaimed.
C5_Witness == reclaimed[1] = 1 /\ finalized[1] = 1

\* C6: the sequential scenario, state by state: created (strong 1), adopted by
\* A, copied into B (strong 2), W made (weak 1), A destroyed (strong 1, not
\* finalized), B destroyed (strong 0, finalized, not reclaimed), W.lock() called
\* after that (null, counts unchanged), W destroyed (weak 0, reclaimed).
C6_Scenario ==
    (scn # Off /\ scn.br = "main") =>
        /\ scn.setup = 1 => strong_count[1] = 1 /\ weak_count[1] = 0
        /\ scn.setup = 2 => iptr[1] = 1 /\ strong_count[1] = 1
        /\ scn.setup = 3 => iptr[2] = 1 /\ strong_count[1] = 2
        /\ scn.setup = 4 => wptr[1] = 1 /\ weak_count[1] = 1 /\ strong_count[1] = 2
        /\ (scn.setup = 5 /\ scn.b = "held" /\ scn.lk = "none") =>
               /\ strong_count[1] = 1 /\ iptr[2] = 1
               /\ finalized[1] = 0 /\ Finalizing(1) = {} /\ reclaimed[1] = 0
        /\ (scn.setup = 5 /\ scn.b = "final" /\ scn.lk = "none") =>
               /\ strong_count[1] = 0 /\ finalized[1] = 1
               /\ weak_count[1] = 1 /\ reclaimed[1] = 0
        /\ scn.seq =>
               /\ scn.lk \in {"run", "null"}
               /\ scn.lk = "null" => iptr[3] = Null
               /\ strong_count[1] = 0 /\ finalized[1] = 1
               /\ ~scn.wd => weak_count[1] = 1 /\ wptr[1] = 1 /\ reclaimed[1] = 0
               /\ scn.wd => weak_count[1] = 0 /\ reclaimed[1] = 1

\* C6 witness: the whole sequential scenario has run, W is destroyed.
C6_Witness == scn.seq /\ scn.wd /\ wptr[1] = NoHandle

\* what a failed lock() or get_locked() must leave alone
LockFrame ==
    UNCHANGED <<strong_count, weak_count, finalized, reclaimed, raw, wraw, wptr>>

\* C7: lock() and get_locked() on a weak handle whose pointer is null, or whose
\* object has strong_count = 0, return null, change neither count, trigger no
\* finalizer and no reclamation, and leave the weak handle its pointer and its
\* weak reference.
C7_FailedLock ==
    [][\A t \in Threads :
        /\ \A w \in WH, dst \in SH \cup {0}, k \in {"lock", "get_locked"} :
               (wptr[w] = Null /\ LockStart(t, w, dst, k)) =>
                   /\ pc'[t] = "idle"
                   /\ k = "lock" => iptr'[dst] = Null
                   /\ LockFrame
        /\ (pc[t] = "idle" /\ pc'[t] \in {"upg_cas", "lock_ret"}
              /\ strong_count[loc'[t].o] = 0) =>
               pc'[t] = "lock_ret" /\ ~loc'[t].ok /\ LockFrame
        /\ (pc[t] = "upg_cas" /\ pc'[t] = "lock_ret" /\ ~loc'[t].ok) => LockFrame
        /\ (pc[t] = "lock_ret" /\ ~loc[t].ok /\ pc'[t] = "idle") =>
               /\ LockFrame
               /\ loc[t].k = "lock" => iptr'[loc[t].h] = Null
               /\ wptr'[loc[t].w] = loc[t].o
               /\ weak_count'[loc[t].o] >= 1
      ]_vars

\* C7 witness: the object is finalized, W.lock() was called after that and has
\* returned the null handle N; W still holds its pointer and its weak reference.
C7_Witness ==
    /\ scn.seq /\ scn.lk = "null" /\ ~scn.wd
    /\ iptr[3] = Null /\ wptr[1] = 1 /\ weak_count[1] = 1

\* C8: p = h.detach() leaves h null and strong_count as it was, the caller
\* owning the reference h owned; intrusive_ptr(p, false) over it leaves
\* strong_count as it was and the new handle owns that reference; in the
\* scripted round trip strong_count is 1 before, between and after.
C8_DetachAdopt ==
    /\ [](scn.br = "detached" =>
            iptr[1] = Null /\ raw[1] = 1 /\ strong_count[1] = 1 /\ ZeroSeen(1) = 0)
    /\ [](scn.br = "readopted" =>
            /\ iptr[1] = Null /\ iptr[2] = 1
            /\ raw[1] = 0 /\ strong_count[1] = 1 /\ ZeroSeen(1) = 0)
    /\ [][\A o \in Objs :
            /\ (raw'[o] = raw[o] + 1 /\ pc' = pc /\ made' = made) =>
                   /\ strong_count' = strong_count
                   /\ finalized' = finalized
                   /\ \E h \in SH : iptr[h] = o /\ iptr' = [iptr EXCEPT ![h] = Null]
            /\ (raw'[o] = raw[o] - 1
                  /\ \E h \in SH : iptr[h] = NoHandle /\ iptr'[h] # NoHandle) =>
                   /\ strong_count' = strong_count
                   /\ finalized' = finalized
                   /\ \E h \in SH : iptr[h] = NoHandle /\ iptr' = [iptr EXCEPT ![h] = o]
       ]_vars

\* C8 witness: A was detached and handle 2 built over the pointer with
\* add_ref = false.
C8_Witness == scn.br = "readopted" /\ iptr[2] = 1

\* C9: reset(p, true) on a strong handle whose target is p first increments
\* strong_count of p, then decrements it without reaching 0: no finalizer is
\* triggered and the handle still points to p; the same for a weak handle
\* against weak_count, with no reclamation.
C9_SelfReset ==
    [][\A t \in Threads :
        /\ (pc[t] = "idle" /\ pc'[t] = "release" /\ loc'[t].k = "add"
              /\ iptr'[loc'[t].h] = loc'[t].o) =>
               /\ strong_count' = [strong_count EXCEPT ![loc'[t].o] = @ + 1]
               /\ finalized' = finalized
        /\ (pc[t] = "release" /\ loc[t].k = "add" /\ iptr[loc[t].h] = loc[t].o
              /\ pc'[t] # "release") =>
               /\ pc'[t] = "idle"
               /\ strong_count' = [strong_count EXCEPT ![loc[t].o] = @ - 1]
               /\ strong_count'[loc[t].o] >= 1
               /\ finalized' = finalized
               /\ iptr'[loc[t].h] = loc[t].o
        /\ (pc[t] = "idle" /\ pc'[t] = "wrelease" /\ wptr'[loc'[t].w] = loc'[t].o) =>
               /\ weak_count' = [weak_count EXCEPT ![loc'[t].o] = @ + 1]
               /\ reclaimed' = reclaimed
        /\ (pc[t] = "wrelease" /\ wptr[loc[t].w] = loc[t].o /\ pc'[t] # "wrelease") =>
               /\ weak_count' = [weak_count EXCEPT ![loc[t].o] = @ - 1]
               /\ weak_count'[loc[t].o] >= 1
               /\ reclaimed' = reclaimed
               /\ wptr'[loc[t].w] = loc[t].o
      ]_vars

\* C9 witness: a handle that holds the only strong reference is in reset to its
\* own target, between the increment and the decrement.
C9_Witness ==
    \E t \in Threads :
        /\ pc[t] = "release" /\ loc[t].k = "add"
        /\ iptr[loc[t].h] = loc[t].o
        /\ StrongOn(loc[t].o) = {loc[t].h}
        /\ strong_count[loc[t].o] = 2

\* C10 as stated: an upcast of a non-null handle gives a non-null handle to the
\* same object and changes no strong_count; a downcast to an incompatible class
\* gives a null handle and changes no count.
C10_CastNoCount ==
    [][\A t \in Threads, dst \in SH, src \in SH :
        /\ (iptr[src] \in Objs /\ UpCast(t, dst, src)) =>
               iptr'[dst] = iptr[src] /\ strong_count' = strong_count
        /\ \A C \in Classes :
               (iptr[src] \in Objs /\ DynType(iptr[src]) # C /\ DownCast(t, dst, src, C)) =>
                   /\ iptr'[dst] = Null
                   /\ strong_count' = strong_count /\ weak_count' = weak_count
      ]_vars

\* C10 as amended: an upcast of a non-null handle gives a non-null handle to the
\* same object that owns a reference of its own: strong_count of the object is
\* one more, weak_count is unchanged; a downcast to an incompatible class gives
\* a null handle and changes no count.
C10_Casts ==
    [][\A t \in Threads, dst \in SH, src \in SH :
        /\ (iptr[src] \in Objs /\ UpCast(t, dst, src)) =>
               /\ iptr'[dst] = iptr[src]
               /\ strong_count' = [strong_count EXCEPT ![iptr[src]] = @ + 1]
               /\ weak_count' = weak_count
        /\ \A C \in Classes :
               (iptr[src] \in Objs /\ DynType(iptr[src]) # C /\ DownCast(t, dst, src, C)) =>
                   /\ iptr'[dst] = Null
                   /\ strong_count' = strong_count /\ weak_count' = weak_count
      ]_vars

\* C10 witness: A's downcast to an incompatible class has given the null handle
\* 2, and A's upcast the handle 3.
C10_Witness ==
    scn.br = "upcast" /\ iptr[2] = Null /\ iptr[3] = 1 /\ strong_count[1] = 2

\* the steps a thread has left in its operation when nothing interferes
StepsLeft(t) ==
    CASE pc[t] = "idle" -> 0
      [] pc[t] \in {"finalize", "wrelease", "wassign_dtor", "lock_ret"} -> 1
      [] pc[t] \in {"release", "assign_dtor", "upg_cas"} -> 2

\* another thread changes strong_count of the object thread t is upgrading
Interfere(t) ==
    /\ pc[t] = "upg_cas" /\ pc'[t] = "upg_cas" /\ loc'[t] = loc[t]
    /\ strong_count'[loc[t].o] # strong_count[loc[t].o]

\* C11: no operation blocks.  A thread inside an operation can always take its
\* next step, whatever the other threads are doing (a finalizer about to run
\* included); every such step brings the operation nearer to its return, except
\* a failed compare-and-increment of the upgrade, which happens only when
\* strong_count is no longer the value read (another thread's operation on the
\* count has completed) and which re-reads the count without changing it; and
\* every operation returns unless other threads change strong_count again and
\* again without end during one upgrade.
C11_NonBlocking ==
    /\ [](\A t \in Threads : pc[t] # "idle" => ENABLED Continue(t))
    /\ [][\A t \in Threads :
            (pc[t] # "idle" /\ Continue(t)) =>
                \/ StepsLeft(t)' < StepsLeft(t)
                \/ /\ pc[t] = "upg_cas" /\ pc'[t] = "upg_cas"
                   /\ strong_count[loc[t].o] # loc[t].c
                   /\ loc'[t].c = strong_count[loc[t].o]
                   /\ strong_count' = strong_count
       ]_vars
    /\ \A t \in Threads :
           \/ []<><<Interfere(t)>>_vars
           \/ (pc[t] # "idle") ~> (pc[t] = "idle")

\* C11 witness: a thread is in the retry loop of an upgrade with a count it read
\* before another thread released the last strong reference; that thread is about
\* to run the finalizer.
C11_Witness ==
    \E t \in Threads, u \in Threads :
        /\ pc[t] = "upg_cas" /\ loc[t].c = 1
        /\ pc[u] = "finalize" /\ loc[u].o = loc[t].o
        /\ strong_count[loc[t].o] = 0

\* the strong references on o held inside running operations: the old target a
\* reset or an assignment has yet to release, and the reference a successful
\* upgrade has taken and lock() or get_locked() has yet to return
InFlight(o) ==
    {t \in Threads :
        /\ loc[t].o = o
        /\ \/ pc[t] \in {"release", "assign_dtor"}
           \/ pc[t] = "lock_ret" /\ loc[t].ok}

\* C12: in every reachable state strong_count of an object is the number of
\* outstanding strong references: the non-null strong handles that point to it,
\* the raw pointers that own a reference (from the factory, detached from a
\* handle or returned by a successful get_locked(), not yet adopted), and the
\* references held inside running operations.  So a copy adds one, a destroyed or
\* reset-away non-null handle subtracts one, a moved-from or detached handle
\* owes nothing, and strong_count is never below zero.
C12_StrongCounting ==
    \A o \in Objs :
        /\ strong_count[o] >= 0
        /\ strong_count[o] =
               Cardinality(StrongOn(o)) + raw[o] + Cardinality(InFlight(o))
        /\ \A h \in SH : iptr[h] \in Objs \cup {Null, NoHandle}

\* C12 witness: two handles point to the object, a third handle is null, a raw
\* pointer owns a third reference and a successful upgrade holds a fourth.
C12_Witness ==
    /\ Cardinality(StrongOn(1)) = 2 /\ raw[1] = 1
    /\ \E h \in SH : iptr[h] = Null
    /\ \E t \in Threads : pc[t] = "lock_ret" /\ loc[t].ok /\ loc[t].o = 1
    /\ strong_count[1] = 4

\* C13: a successful lock() adds exactly one to strong_count in total: the
\* call and the return change no count, the successful compare-and-increment
\* adds one, and the handle returned takes over that reference; destroying a
\* non-null handle subtracts exactly one, which takes the count back.
\* get_locked() does the same to both counts and returns the pointer, owning
\* the reference, so that a handle built over it with add_ref = false leaves
\* the state a lock() into that handle leaves.
C13_LockAddsOne ==
    [][\A t \in Threads :
        /\ (pc[t] = "idle" /\ pc'[t] \in {"upg_cas", "lock_ret"}) =>
               strong_count' = strong_count /\ weak_count' = weak_count
        /\ (pc[t] = "upg_cas" /\ pc'[t] = "lock_ret" /\ loc'[t].ok) =>
               /\ strong_count' = [strong_count EXCEPT ![loc[t].o] = @ + 1]
               /\ weak_count' = weak_count
               /\ iptr' = iptr /\ raw' = raw
        /\ (UpgCas(t) /\ ~loc'[t].ok) =>
               strong_count' = strong_count /\ weak_count' = weak_count
        /\ (pc[t] = "lock_ret" /\ loc[t].ok /\ pc'[t] = "idle") =>
               /\ strong_count' = strong_count /\ weak_count' = weak_count
               /\ finalized' = finalized /\ reclaimed' = reclaimed
               /\ wptr' = wptr /\ wraw' = wraw
               /\ loc[t].k = "lock" =>
                      iptr' = [iptr EXCEPT ![loc[t].h] = loc[t].o] /\ raw' = raw
               /\ loc[t].k = "get_locked" =>
                      iptr' = iptr /\ raw' = [raw EXCEPT ![loc[t].o] = @ + 1]
        /\ \A h \in SH, o \in Objs :
               Adopt(t, h, o) =>
                   /\ iptr' = [iptr EXCEPT ![h] = o]
                   /\ raw' = [raw EXCEPT ![o] = @ - 1]
                   /\ strong_count' = strong_count /\ weak_count' = weak_count
                   /\ finalized' = finalized /\ reclaimed' = reclaimed
                   /\ wptr' = wptr /\ wraw' = wraw /\ pc' = pc /\ loc' = loc
        /\ \A h \in SH :
               (iptr[h] \in Objs /\ Destroy(t, h)) =>
                   /\ strong_count' = [strong_count EXCEPT ![iptr[h]] = @ - 1]
                   /\ weak_count' = weak_count
      ]_vars

\* C13 witness: a lock() and a get_locked() on the same object have both
\* upgraded and are about to return, next to the handle that kept the object
\* alive.
C13_Witness ==
    \E t \in Threads, u \in Threads :
        /\ pc[t] = "lock_ret" /\ loc[t].ok /\ loc[t].k = "lock"
        /\ pc[u] = "lock_ret" /\ loc[u].ok /\ loc[u].k = "get_locked"
        /\ loc[t].o = 1 /\ loc[u].o = 1
        /\ Cardinality(StrongOn(1)) = 1 /\ strong_count[1] = 3

\* what a move, a detach or a swap must leave alone: both counts of every
\* object, the finalizers, the storage, and every thread's position (no release
\* is started)
MoveFrame == UNCHANGED <<strong_count, weak_count, finalized, reclaimed, pc, loc>>

\* C14: move construction, detach()/release() and swap() on strong and weak
\* handles change no count of any object and trigger no finalizer and no
\* reclamation; a move gives the new handle the source's pointer and leaves the
\* source null, a detach hands the pointer to the caller and leaves the handle
\* null, a swap exchanges the pointers of the two handles.
C14_MoveDetachSwap ==
    [][\A t \in Threads :
        /\ \A dst \in SH, src \in SH :
               MoveCtor(t, dst, src) =>
                   /\ MoveFrame /\ raw' = raw /\ wptr' = wptr /\ wraw' = wraw
                   /\ iptr' = [iptr EXCEPT ![dst] = iptr[src], ![src] = Null]
        /\ \A h \in SH :
               Detach(t, h) =>
                   /\ MoveFrame /\ wptr' = wptr /\ wraw' = wraw
                   /\ iptr' = [iptr EXCEPT ![h] = Null]
                   /\ raw' = IF iptr[h] = Null THEN raw
                             ELSE [raw EXCEPT ![iptr[h]] = @ + 1]
        /\ \A a \in SH, b \in SH :
               Swap(t, a, b) =>
                   /\ MoveFrame /\ raw' = raw /\ wptr' = wptr /\ wraw' = wraw
                   /\ iptr' = [iptr EXCEPT ![a] = iptr[b], ![b] = iptr[a]]
        /\ \A dst \in WH, src \in WH :
               WeakMoveCtor(t, dst, src) =>
                   /\ MoveFrame /\ raw' = raw /\ iptr' = iptr /\ wraw' = wraw
                   /\ wptr' = [wptr EXCEPT ![dst] = wptr[src], ![src] = Null]
        /\ \A w \in WH :
               WeakDetach(t, w) =>
                   /\ MoveFrame /\ raw' = raw /\ iptr' = iptr
                   /\ wptr' = [wptr EXCEPT ![w] = Null]
                   /\ wraw' = IF wptr[w] = Null THEN wraw
                              ELSE [wraw EXCEPT ![wptr[w]] = @ + 1]
        /\ \A a \in WH, b \in WH :
               WeakSwap(t, a, b) =>
                   /\ MoveFrame /\ raw' = raw /\ iptr' = iptr /\ wraw' = wraw
                   /\ wptr' = [wptr EXCEPT ![a] = wptr[b], ![b] = wptr[a]]
      ]_vars

\* C14 witness: a strong handle and a weak handle of the live object have been
\* detached: both are null, the caller owns one strong and one weak reference
\* through raw pointers, and nothing was finalized.
C14_Witness ==
    /\ raw[1] = 1 /\ wraw[1] = 1
    /\ \E h \in SH : iptr[h] = Null
    /\ \E w \in WH : wptr[w] = Null
    /\ StrongOn(1) = {} /\ WeakOn(1) = {}
    /\ strong_count[1] = 1 /\ weak_count[1] = 1
    /\ ZeroSeen(1) = 0 /\ reclaimed[1] = 0
    /\ \A t \in Threads : pc[t] = "idle"

\* the weak references on o held inside running operations: the old target a
\* weak reset or a weak assignment has yet to release
WeakInFlight(o) ==
    {t \in Threads : pc[t] \in {"wrelease", "wassign_dtor"} /\ loc[t].o = o}

\* C15: weak handles are counted in weak_count only.  In every reachable state
\* weak_count of an object is the number of non-null weak handles that point to
\* it, plus the detached weak pointers, plus the old targets running weak
\* resets and assignments have yet to release, and it is never below zero; a
\* step changes weak_count by at most one; and a step that constructs, copies,
\* moves, detaches, resets, assigns or destroys a weak handle changes neither
\* strong_count nor any strong handle and triggers no finalizer, so among the
\* weak handle operations only the upgrade of lock()/get_locked() changes
\* strong_count.
C15_WeakCounting ==
    /\ [](\A o \in Objs :
            /\ weak_count[o] >= 0
            /\ weak_count[o] =
                   Cardinality(WeakOn(o)) + wraw[o] + Cardinality(WeakInFlight(o)))
    /\ [][\A o \in Objs :
            /\ weak_count'[o] - weak_count[o] \in {-1, 0, 1}
            /\ ( \/ wptr' # wptr \/ weak_count' # weak_count \/ wraw' # wraw
                 \/ \E t \in Threads :
                        /\ \/ pc[t] \in {"wrelease", "wassign_dtor"}
                           \/ pc'[t] \in {"wrelease", "wassign_dtor"}
                        /\ pc'[t] # pc[t] )
               => /\ made[o] => strong_count'[o] = strong_count[o]
                  /\ finalized' = finalized
                  /\ iptr' = iptr /\ raw' = raw
                  /\ \A t \in Threads : pc'[t] # "finalize" \/ pc[t] = "finalize"
            /\ (made[o] /\ strong_count'[o] # strong_count[o]
                   /\ \E t \in Threads : loc[t].w \in WH /\ pc'[t] # pc[t]) =>
                   \E t \in Threads :
                       /\ pc[t] = "upg_cas" /\ pc'[t] = "lock_ret" /\ loc'[t].ok
                       /\ strong_count'[o] = strong_count[o] + 1
       ]_vars

\* C15 witness: both weak handles point to the object, a detached weak pointer
\* owns a third weak reference and a weak self-assignment has yet to release a
\* fourth; one strong handle keeps the object alive.
C15_Witness ==
    /\ Cardinality(WeakOn(1)) = 2 /\ wraw[1] = 1
    /\ \E t \in Threads : pc[t] = "wassign_dtor" /\ loc[t].o = 1
    /\ weak_count[1] = 4
    /\ strong_count[1] = 1 /\ Cardinality(StrongOn(1)) = 1

\* C16: weak handles never extend the lifetime of the object.  The release that
\* brings strong_count to 0 triggers the finalizer whatever weak_count is, and
\* the finalizer can run at once; from then on strong_count stays 0, and while
\* weak references remain after the finalizer has run the storage is not
\* reclaimed, no upgrade succeeds, and every lock() and get_locked() returns
\* null.
C16_WeakNoLifetime ==
    /\ [](\A o \in Objs :
            /\ (made[o] /\ strong_count[o] = 0) => ZeroSeen(o) = 1
            /\ \A t \in Threads : pc[t] = "finalize" => ENABLED Finalize(t)
            /\ (finalized[o] >= 1 /\ weak_count[o] >= 1) =>
                   /\ reclaimed[o] = 0
                   /\ strong_count[o] = 0
                   /\ StrongOn(o) = {} /\ raw[o] = 0
                   /\ \A t \in Threads :
                          (pc[t] \in {"upg_cas", "lock_ret"} /\ loc[t].o = o) =>
                              ~loc[t].ok)
    /\ [][\A o \in Objs :
            /\ (strong_count[o] = 1 /\ strong_count'[o] = 0) =>
                   \E t \in Threads :
                       pc[t] # "finalize" /\ pc'[t] = "finalize" /\ loc'[t].o = o
            /\ \A t \in Threads :
                   (finalized[o] >= 1 /\ weak_count[o] >= 1 /\ loc[t].o = o
                      /\ pc[t] = "lock_ret" /\ pc'[t] = "idle") =>
                       /\ loc[t].k = "lock" => iptr'[loc[t].h] = Null
                       /\ raw' = raw
                       /\ finalized' = finalized /\ reclaimed' = reclaimed
                       /\ strong_count' = strong_count
       ]_vars

\* C16 witness: the last strong handle was destroyed while two weak handles
\* point to the object; the finalizer has run, the storage is not reclaimed,
\* and a lock() on one of the weak handles has just returned a null handle
\* while another is about to.
C16_Witness ==
    /\ finalized[1] = 1 /\ reclaimed[1] = 0
    /\ Cardinality(WeakOn(1)) = 2 /\ weak_count[1] = 2
    /\ \E h \in SH : iptr[h] = Null
    /\ \E t \in Threads :
           pc[t] = "lock_ret" /\ loc[t].k = "lock" /\ loc[t].o = 1 /\ ~loc[t].ok

\* every strong and weak handle on o is destroyed, no raw pointer owns a
\* reference to it and no operation is running
AllDropped(o) ==
    /\ made[o]
    /\ StrongOn(o) = {} /\ raw[o] = 0
    /\ WeakOn(o) = {} /\ wraw[o] = 0
    /\ \A t \in Threads : pc[t] = "idle"

C18_CopyAssign ==
    [][\A t \in Threads :
        /\ \A a \in SH, b \in SH :
               CopyAssign(t, a, b) =>
                   /\ iptr' = [iptr EXCEPT ![a] = iptr[b]]
                   /\ strong_count' = IF iptr[b] = Null THEN strong_count
                                      ELSE [strong_count EXCEPT ![iptr[b]] = @ + 1]
                   /\ finalized' = finalized /\ weak_count' = weak_count
                   /\ raw' = raw /\ reclaimed' = reclaimed
                   /\ IF iptr[a] = Null
                      THEN pc'[t] = "idle"
                      ELSE /\ pc'[t] = "assign_dtor"
                           /\ loc'[t].o = iptr[a] /\ loc'[t].h = a
        /\ (pc[t] = "assign_dtor" /\ loc[t].k = "copy" /\ pc'[t] # pc[t]) =>
               /\ strong_count' = [strong_count EXCEPT ![loc[t].o] = @ - 1]
               /\ iptr' = iptr /\ finalized' = finalized
               /\ pc'[t] = IF strong_count[loc[t].o] = 1 THEN "finalize" ELSE "idle"
               /\ iptr[loc[t].h] = loc[t].o =>
                      strong_count'[loc[t].o] >= 1 /\ pc'[t] = "idle"
      ]_vars

\* C18 witness: the handle that holds the only strong reference is being
\* assigned to itself; the parameter holds the second reference and its
\* destructor has yet to run.
C18_Witness ==
    \E t \in Threads :
        /\ pc[t] = "assign_dtor" /\ loc[t].k = "copy"
        /\ iptr[loc[t].h] = loc[t].o
        /\ StrongOn(loc[t].o) = {loc[t].h}
        /\ raw[loc[t].o] = 0
        /\ strong_count[loc[t].o] = 2

====
